---- MODULE Spec2Model ----
(***************************************************************************)
(* A model of src/analysis/geo_location.py: extraction of polygons from a  *)
(* KML document, bounding-box preprocessing, the ray-casting containment   *)
(* test and the batch evaluation of point records.                         *)
(*                                                                         *)
(* Numbers.  The program computes with IEEE doubles.  The model computes   *)
(* with integers: an x coordinate is a whole number, a y coordinate is a   *)
(* whole number of half-epsilons (EPSILON / 2 = 0.000005), so that the     *)
(* nudge "point.y + EPSILON" of _ray_intersects_segment is "+ 2" and 1.0   *)
(* is ONE = 200000.  Slopes are kept as fractions and compared by cross    *)
(* multiplication.  A document either has its vertices on the integer grid *)
(* (ystep = ONE) or has vertices that are half an epsilon apart in y       *)
(* (ystep = 1).  Python's None is the empty sequence, a present value v is *)
(* the one-element sequence <<v>>.                                         *)
(***************************************************************************)
EXTENDS Integers, Sequences, FiniteSets, TLC

VARIABLES
    pc,           \* position in the pipeline
    ystep,        \* length of one grid step in y, in half-epsilons
    shapes,       \* per Placemark, the points _parse_coordinates returned
    polygons,     \* the result of extract_polygons_from_folder
    df,           \* the DataFrame rows: lat, lon, approximateLat, approximateLon
    processed,    \* processed_polygons of mark_points_in_polygons
    flooded,      \* the 'flooded' column, one evaluation record per row
    coord_text,   \* the argument of _parse_coordinates
    parsed,       \* the result of _parse_coordinates
    doc,          \* the Folder tree of the KML document
    folder_name,  \* the folder looked for
    target_folder,\* the result of _find_folder_by_name
    find_calls,   \* how many calls of _find_folder_by_name it took
    extracted     \* extract_polygons_from_folder(doc, folder_name)

vars == <<pc, ystep, shapes, polygons, df, processed, flooded,
          coord_text, parsed, doc, folder_name, target_folder, find_calls,
          extracted>>

(***************************************************************************)
(* Bounds of the model.                                                    *)
(***************************************************************************)
MaxVerts == 3      \* most points in one coordinate list
MaxX == 1          \* vertices have x in 0..MaxX
MaxY == 2          \* vertices have y in (0..MaxY) * ystep
MaxPolys == 2      \* most polygons in one batch evaluation
MaxRecords == 2    \* most rows in one batch evaluation
MaxText == 4       \* longest coordinate string taken character by character
MaxTokens == 3     \* most tokens in a coordinate string built from tokens
MaxFolders == 3    \* most Folder elements in a document
MaxSide == 2       \* rectangles have corners in 0..MaxSide

(***************************************************************************)
(* Program constants, in the model's units.                                *)
(***************************************************************************)
EPSILON == 2       \* 0.00001, in half-epsilons
TINY == 0          \* sys.float_info.min: below every non-zero difference
ONE == 200000      \* 1.0, in half-epsilons (1 / (EPSILON / 2))
INFINITY == [n |-> 1, d |-> 0]   \* sys.float_info.max, as a slope

None == <<>>
Some(v) == <<v>>
Get(o) == o[1]

Min2(a, b) == IF a <= b THEN a ELSE b
Max2(a, b) == IF a >= b THEN a ELSE b
Abs(a) == IF a < 0 THEN -a ELSE a
SetMin(S) == CHOOSE m \in S : \A v \in S : m <= v
SetMax(S) == CHOOSE m \in S : \A v \in S : m >= v

RECURSIVE SeqMin(_), SeqMax(_)
SeqMin(s) == IF Len(s) = 1 THEN s[1] ELSE Min2(s[1], SeqMin(Tail(s)))
SeqMax(s) == IF Len(s) = 1 THEN s[1] ELSE Max2(s[1], SeqMax(Tail(s)))

(***************************************************************************)
(* The value types.                                                        *)
(***************************************************************************)
Point(x, y) == [x |-> x, y |-> y]
Edge(start, end) == [start |-> start, end |-> end]
Polygon(edges) == [edges |-> edges]
PolygonWithBBox(polygon, min_p, max_p) ==
    [polygon |-> polygon, min_p |-> min_p, max_p |-> max_p]

(***************************************************************************)
(* extract_polygons_from_folder, lines 89-96: one shape's points become a  *)
(* ring of edges; a shape without points is skipped.                       *)
(***************************************************************************)
\* lines 91-94 without the wrap-around to the first point
RingEdgesOpen(points) ==
    [i \in 1..(Len(points) - 1) |-> Edge(points[i], points[i + 1])]

RingEdges(points) ==
    [i \in 1..Len(points) |-> Edge(points[i], points[(i % Len(points)) + 1])]

ShapePolygons(points) ==
    IF points # <<>> THEN << Polygon(RingEdges(points)) >> ELSE <<>>

RECURSIVE ShapesToPolygons(_)
ShapesToPolygons(pointLists) ==
    IF pointLists = <<>> THEN <<>>
    ELSE ShapePolygons(Head(pointLists)) \o ShapesToPolygons(Tail(pointLists))

(***************************************************************************)
(* _ray_intersects_segment.                                                *)
(***************************************************************************)
\* lines 227-230 without the swap
NormalizeEdgeNoSwap(edge) == edge

NormalizeEdge(edge) ==
    IF edge.start.y > edge.end.y THEN Edge(edge.end, edge.start) ELSE edge

\* lines 232-233 with the point moved down
NudgeDown(point, start, end) ==
    IF point.y = start.y \/ point.y = end.y
    THEN Point(point.x, point.y - EPSILON)
    ELSE point

\* lines 232-233 left out
NudgeNone(point, start, end) == point

Nudge(point, start, end) ==
    IF point.y = start.y \/ point.y = end.y
    THEN Point(point.x, point.y + EPSILON)
    ELSE point

Slope(dy, dx) == IF Abs(dx) > TINY THEN [n |-> dy, d |-> dx] ELSE INFINITY

\* a >= b for two slopes; INFINITY is above every quotient of coordinates
SlopeGE(a, b) ==
    IF a.d = 0 THEN TRUE
    ELSE IF b.d = 0 THEN FALSE
    ELSE LET an == IF a.d < 0 THEN -a.n ELSE a.n
             ad == Abs(a.d)
             bn == IF b.d < 0 THEN -b.n ELSE b.n
             bd == Abs(b.d)
         IN an * bd >= bn * ad

RayIntersectsSegment(point, edge) ==
    LET e == NormalizeEdge(edge)
        start == e.start
        end == e.end
        p == Nudge(point, start, end)
    IN IF (p.y > end.y \/ p.y < start.y) \/ p.x > Max2(start.x, end.x)
       THEN FALSE
       ELSE IF p.x < Min2(start.x, end.x)
       THEN TRUE
       ELSE SlopeGE(Slope(p.y - start.y, p.x - start.x),
                    Slope(end.y - start.y, end.x - start.x))

(***************************************************************************)
(* _is_point_inside_polygon.                                               *)
(***************************************************************************)
RECURSIVE IntersectionCount(_, _)
IntersectionCount(point, edges) ==
    IF edges = <<>> THEN 0
    ELSE (IF RayIntersectsSegment(point, Head(edges)) THEN 1 ELSE 0)
         + IntersectionCount(point, Tail(edges))

IsPointInsidePolygon(point, polygon) ==
    IntersectionCount(point, polygon.edges) % 2 = 1

(***************************************************************************)
(* _get_bounding_box, _is_point_in_bbox, _preprocess_polygons.             *)
(***************************************************************************)
\* lines 280-282 with the end of the first edge in place of the last edge
GetBoundingBoxFirstEdge(polygon) ==
    LET es == polygon.edges
        xs == [i \in 1..(Len(es) - 1) |-> es[i].start.x] \o << es[1].end.x >>
        ys == [i \in 1..(Len(es) - 1) |-> es[i].start.y] \o << es[1].end.y >>
    IN << Point(SeqMin(xs), SeqMin(ys)), Point(SeqMax(xs), SeqMax(ys)) >>

GetBoundingBox(polygon) ==
    LET es == polygon.edges
        xs == [i \in 1..Len(es) |-> es[i].start.x] \o << es[Len(es)].end.x >>
        ys == [i \in 1..Len(es) |-> es[i].start.y] \o << es[Len(es)].end.y >>
    IN << Point(SeqMin(xs), SeqMin(ys)), Point(SeqMax(xs), SeqMax(ys)) >>

IsPointInBBox(point, min_p, max_p) ==
    /\ min_p.x <= point.x /\ point.x <= max_p.x
    /\ min_p.y <= point.y /\ point.y <= max_p.y

RECURSIVE PreprocessPolygons(_)
PreprocessPolygons(polys) ==
    IF polys = <<>> THEN <<>>
    ELSE LET bb == GetBoundingBox(Head(polys))
         IN << PolygonWithBBox(Head(polys), bb[1], bb[2]) >>
            \o PreprocessPolygons(Tail(polys))

(***************************************************************************)
(* _check_point_in_any_polygon.  The value is an evaluation record: the    *)
(* boolean the function returns, the point it tested (None when it         *)
(* returned before building one) and how many bounding boxes and edges it  *)
(* evaluated on the way.                                                   *)
(***************************************************************************)
\* lines 150-151 with 0.0 standing in for a coordinate that is missing twice
FinalCoordOrZero(exact, approx) ==
    IF exact # None THEN exact ELSE IF approx # None THEN approx ELSE Some(0)

FinalCoord(exact, approx) == IF exact = None THEN approx ELSE exact

Evaluation(result, point, bbox, edges) ==
    [result |-> result, point |-> point, bbox |-> bbox, edges |-> edges]

\* the loop of lines 158-162 that gives up after the first polygon
AnyPolygonFirstOnly(point, ps) ==
    IF ps = <<>> THEN Evaluation(FALSE, Some(point), 0, 0)
    ELSE IF IsPointInBBox(point, Head(ps).min_p, Head(ps).max_p)
         THEN Evaluation(IsPointInsidePolygon(point, Head(ps).polygon),
                         Some(point), 1, Len(Head(ps).polygon.edges))
         ELSE Evaluation(FALSE, Some(point), 1, 0)

RECURSIVE AnyPolygon(_, _)
AnyPolygon(point, ps) ==
    IF ps = <<>> THEN Evaluation(FALSE, Some(point), 0, 0)
    ELSE LET p == Head(ps)
             n == Len(p.polygon.edges)
             rest == AnyPolygon(point, Tail(ps))
         IN IF IsPointInBBox(point, p.min_p, p.max_p)
            THEN IF IsPointInsidePolygon(point, p.polygon)
                 THEN Evaluation(TRUE, Some(point), 1, n)
                 ELSE Evaluation(rest.result, Some(point),
                                 rest.bbox + 1, rest.edges + n)
            ELSE Evaluation(rest.result, Some(point), rest.bbox + 1, rest.edges)

CheckPointInAnyPolygon(lat, lon, approx_lat, approx_lon, processed_polygons) ==
    LET final_lat == FinalCoord(lat, approx_lat)
        final_lon == FinalCoord(lon, approx_lon)
    IN IF final_lat = None \/ final_lon = None
       THEN Evaluation(FALSE, None, 0, 0)
       ELSE AnyPolygon(Point(Get(final_lon), Get(final_lat)), processed_polygons)

(***************************************************************************)
(* mark_points_in_polygons: the bounding boxes are computed once, then     *)
(* every row is mapped to its evaluation, in the order of the rows.        *)
(* map_elements is taken to call the function on each row's struct.       *)
(***************************************************************************)
Row(lat, lon, approximateLat, approximateLon) ==
    [lat |-> lat, lon |-> lon,
     approximateLat |-> approximateLat, approximateLon |-> approximateLon]

MarkPointsInPolygons(frame, polys) ==
    LET processed_polygons == PreprocessPolygons(polys)
    IN [i \in 1..Len(frame) |->
           CheckPointInAnyPolygon(frame[i].lat, frame[i].lon,
                                  frame[i].approximateLat,
                                  frame[i].approximateLon,
                                  processed_polygons)]

(***************************************************************************)
(* Inputs.                                                                 *)
(***************************************************************************)
GridPoints(step) == {Point(x, y * step) : x \in 0..MaxX, y \in 0..MaxY}

\* the rows of a frame that holds every point of the grid and of the ring
\* around it, with exact coordinates only, row by row
QueryWidth == MaxX + 3
QueryHeight == MaxY + 3
QueryFrame(step) ==
    [i \in 1..(QueryWidth * QueryHeight) |->
        Row(Some((((i - 1) \div QueryWidth) - 1) * step),
            Some(((i - 1) % QueryWidth) - 1), None, None)]

RowPoint(row) == Point(Get(row.lon), Get(row.lat))

Idle ==
    /\ coord_text = None /\ parsed = <<>>
    /\ doc = <<>> /\ folder_name = "" /\ target_folder = None /\ extracted = <<>>
    /\ find_calls = 0

(***************************************************************************)
(* Spec: a document with one shape, or with that shape followed by the     *)
(* shape that lacks its first point, tested against every point of the     *)
(* query frame.                                                            *)
(***************************************************************************)
Init ==
    /\ pc = "extract"
    /\ ystep \in {ONE, 1}
    /\ \E n \in 0..MaxVerts :
           \E coords \in [1..n -> GridPoints(ystep)] :
               \/ shapes = << coords >>
               \/ n >= 1 /\ shapes = << coords, Tail(coords) >>
    /\ polygons = <<>>
    /\ df = QueryFrame(ystep)
    /\ processed = <<>>
    /\ flooded = <<>>
    /\ Idle

Extract ==
    /\ pc = "extract"
    /\ polygons' = ShapesToPolygons(shapes)
    /\ pc' = "mark"
    /\ UNCHANGED <<ystep, shapes, df, processed, flooded, coord_text, parsed,
                   doc, folder_name, target_folder, find_calls, extracted>>

Mark ==
    /\ pc = "mark"
    /\ processed' = PreprocessPolygons(polygons)
    /\ flooded' = MarkPointsInPolygons(df, polygons)
    /\ pc' = "done"
    /\ UNCHANGED <<ystep, shapes, polygons, df, coord_text, parsed,
                   doc, folder_name, target_folder, find_calls, extracted>>

Next == Extract \/ Mark

Spec == Init /\ [][Next]_vars

(***************************************************************************)
(* SpecBatch: a list of polygons and a list of rows whose exact and        *)
(* approximate coordinates are each present or missing.  The polygons are  *)
(* three of the triangles with corners on a square of side MaxX + 2; the   *)
(* exact coordinates name the grid point (1, 1), the approximate ones the  *)
(* grid point (2, 2).                                                      *)
(***************************************************************************)
Side == MaxX + 2

BatchShapes ==
    { << Point(0, 0), Point(Side, 0), Point(0, Side * ONE) >>,
      << Point(Side, Side * ONE), Point(0, Side * ONE), Point(Side, 0) >>,
      << Point(Side, 0), Point(Side, Side * ONE), Point(0, 0) >> }

BatchRows ==
    { Row(lat, lon, alat, alon) :
        lat \in {None, Some(ONE)}, lon \in {None, Some(1)},
        alat \in {None, Some(2 * ONE)}, alon \in {None, Some(2)} }

InitBatch ==
    /\ pc = "extract"
    /\ ystep = ONE
    /\ \E n \in 0..MaxPolys : shapes \in [1..n -> BatchShapes]
    /\ polygons = <<>>
    /\ \E n \in 0..MaxRecords : df \in [1..n -> BatchRows]
    /\ processed = <<>>
    /\ flooded = <<>>
    /\ Idle

SpecBatch == InitBatch /\ [][Next]_vars

(***************************************************************************)
(* _parse_coordinates.  A string is a sequence of one-character strings.   *)
(* float() accepts the non-empty digit strings; every other component of   *)
(* the model's alphabet raises ValueError, which is None here.             *)
(***************************************************************************)
Digits == {"0", "1", "2", "3", "4", "5", "6", "7", "8", "9"}
DigitValue(c) ==
    CASE c = "0" -> 0 [] c = "1" -> 1 [] c = "2" -> 2 [] c = "3" -> 3
      [] c = "4" -> 4 [] c = "5" -> 5 [] c = "6" -> 6 [] c = "7" -> 7
      [] c = "8" -> 8 [] c = "9" -> 9

RECURSIVE DecimalValue(_)
DecimalValue(s) ==
    IF s = <<>> THEN 0
    ELSE 10 * DecimalValue(SubSeq(s, 1, Len(s) - 1)) + DigitValue(s[Len(s)])

Float(s) ==
    IF s # <<>> /\ \A i \in 1..Len(s) : s[i] \in Digits
    THEN Some(DecimalValue(s))
    ELSE None

\* str.split(sep): the pieces between the separators, empty pieces kept
RECURSIVE SplitOn(_, _)
SplitOn(s, sep) ==
    IF \A i \in 1..Len(s) : s[i] # sep THEN << s >>
    ELSE LET k == CHOOSE i \in 1..Len(s) :
                      s[i] = sep /\ \A j \in 1..(i - 1) : s[j] # sep
         IN << SubSeq(s, 1, k - 1) >> \o SplitOn(SubSeq(s, k + 1, Len(s)), sep)

\* str.strip().split(): the maximal runs of characters other than whitespace
SplitWhitespace(s) == SelectSeq(SplitOn(s, " "), LAMBDA t : t # <<>>)

\* lines 205-212 for one token: the points it appends, none when float()
\* raises or the token has fewer than two components
TokenPoints(coord) ==
    LET parts == SplitOn(coord, ",")
    IN IF Len(parts) >= 2
       THEN LET lon == Float(parts[1])
                lat == Float(parts[2])
            IN IF lon = None \/ lat = None THEN <<>>
               ELSE << Point(Get(lon), Get(lat)) >>
       ELSE <<>>

\* the loop of lines 203-212 that stops at the first token it cannot parse
RECURSIVE ParseLoopAbort(_)
ParseLoopAbort(tokens) ==
    IF tokens = <<>> THEN <<>>
    ELSE IF TokenPoints(Head(tokens)) = <<>> THEN <<>>
    ELSE TokenPoints(Head(tokens)) \o ParseLoopAbort(Tail(tokens))

RECURSIVE ParseLoop(_)
ParseLoop(tokens) ==
    IF tokens = <<>> THEN <<>>
    ELSE TokenPoints(Head(tokens)) \o ParseLoop(Tail(tokens))

ParseCoordinates(text) ==
    IF text = None \/ Get(text) = <<>> THEN <<>>
    ELSE ParseLoop(SplitWhitespace(Get(text)))

(***************************************************************************)
(* SpecParse: _parse_coordinates applied to None, to every string of at    *)
(* most MaxText characters of the alphabet, and to every string made of at *)
(* most MaxTokens of the tokens below, separated by single spaces.         *)
(***************************************************************************)
Alphabet == {"1", "2", ",", " ", "x"}

SampleTokens ==
    { <<"1", ",", "2">>, <<"2", ",", "1">>, <<"1", "2", ",", "1">>,
      <<"1", ",", "2", ",", "x">>, <<"2", ",", "1", ",", "1">>,
      <<"x", ",", "1">>, <<"1", ",", "x">>, <<"1">>, <<"1", ",">>,
      <<",">>, <<"x">> }

RECURSIVE Join(_)
Join(tokens) ==
    IF tokens = <<>> THEN <<>>
    ELSE IF Len(tokens) = 1 THEN tokens[1]
    ELSE tokens[1] \o <<" ">> \o Join(Tail(tokens))

InitParse ==
    /\ pc = "parse"
    /\ \/ coord_text = None
       \/ \E n \in 0..MaxText : \E t \in [1..n -> Alphabet] : coord_text = Some(t)
       \/ \E n \in 0..MaxTokens :
              \E ts \in [1..n -> SampleTokens] : coord_text = Some(Join(ts))
    /\ parsed = <<>>
    /\ ystep = ONE /\ shapes = <<>> /\ polygons = <<>> /\ df = <<>>
    /\ processed = <<>> /\ flooded = <<>>
    /\ doc = <<>> /\ folder_name = "" /\ target_folder = None /\ extracted = <<>>
    /\ find_calls = 0

Parse ==
    /\ pc = "parse"
    /\ parsed' = ParseCoordinates(coord_text)
    /\ pc' = "parsed"
    /\ UNCHANGED <<ystep, shapes, polygons, df, processed, flooded,
                   coord_text, doc, folder_name, target_folder, find_calls,
                   extracted>>

NextParse == Parse

SpecParse == InitParse /\ [][NextParse]_vars

(***************************************************************************)
(* The KML document.  Its Folder elements are numbered 1..n in document    *)
(* order and 0 is the root element; parent[i] is the closest Folder (or    *)
(* the root) above Folder i, name[i] the text of its direct name child     *)
(* (None without one), placemarks[i] the coord_text of each Placemark that *)
(* is its own: Some(string), or None for a Polygon without coordinates.    *)
(***************************************************************************)

RECURSIVE IsBelow(_, _, _)
IsBelow(d, i, r) ==
    IF i = 0 THEN FALSE
    ELSE d.parent[i] = r \/ IsBelow(d, d.parent[i], r)

\* root.findall(".//Folder"): the Folders below root, in document order
FindAllFolders(d, root) ==
    LET below == {i \in 1..Len(d.parent) : IsBelow(d, i, root)}
        RECURSIVE Ordered(_)
        Ordered(S) == IF S = {} THEN <<>>
                      ELSE << SetMin(S) >> \o Ordered(S \ {SetMin(S)})
    IN Ordered(below)

UpperCase(c) == IF c = "a" THEN "A" ELSE IF c = "b" THEN "B" ELSE c

\* line 180 comparing without regard to letter case
NameMatchesIgnoreCase(name_elem, name) ==
    name_elem # None /\ UpperCase(Get(name_elem)) = UpperCase(name)

\* line 180
NameMatches(name_elem, name) == name_elem # None /\ Get(name_elem) = name

\* _find_folder_by_name and its loop give the folder found (or None) and the
\* number of calls of _find_folder_by_name made on the way
Found(folder, calls) == [folder |-> folder, calls |-> calls]

RECURSIVE FindFolder(_, _, _), FindFolderLoop(_, _, _, _)
FindFolderLoop(d, folders, k, name) ==
    IF k > Len(folders) THEN Found(None, 0)
    ELSE LET folder == folders[k]
         IN IF NameMatches(d.name[folder], name) THEN Found(Some(folder), 0)
            ELSE LET subfolder_result == FindFolder(d, folder, name)
                     rest == FindFolderLoop(d, folders, k + 1, name)
                 IN IF subfolder_result.folder # None THEN subfolder_result
                    ELSE Found(rest.folder, subfolder_result.calls + rest.calls)

FindFolder(d, root, name) ==
    LET r == FindFolderLoop(d, FindAllFolders(d, root), 1, name)
    IN Found(r.folder, r.calls + 1)

FindFolderByName(d, root, name) == FindFolder(d, root, name).folder

\* target_folder.findall(".//Placemark"), each with its coord_text
PlacemarkTexts(d, target) ==
    LET inside == {i \in 1..Len(d.parent) : i = target \/ IsBelow(d, i, target)}
        RECURSIVE Ordered(_)
        Ordered(S) == IF S = {} THEN <<>>
                      ELSE d.placemarks[SetMin(S)] \o Ordered(S \ {SetMin(S)})
    IN Ordered(inside)

ExtractPolygonsFromFolder(d, name) ==
    LET target == FindFolderByName(d, 0, name)
    IN IF target = None THEN <<>>
       ELSE LET texts == PlacemarkTexts(d, Get(target))
            IN ShapesToPolygons([i \in 1..Len(texts) |-> ParseCoordinates(texts[i])])

(***************************************************************************)
(* SpecFolder: every document of at most MaxFolders Folders, each named    *)
(* "A", "a" or not at all, each with or without a Placemark.               *)
(***************************************************************************)
FolderNames == {None, Some("A"), Some("a")}
TargetNames == {"A", "a", "B"}

DigitChar(i) ==
    CASE i = 0 -> "0" [] i = 1 -> "1" [] i = 2 -> "2" [] i = 3 -> "3"
      [] i = 4 -> "4" [] i = 5 -> "5" [] i = 6 -> "6" [] i = 7 -> "7"
      [] i = 8 -> "8" [] i = 9 -> "9"

\* the Placemark of Folder i, when it has coordinates, is the point (i, i)
FolderText(i) == Some(<< DigitChar(i), ",", DigitChar(i) >>)

\* parents of Folders numbered in document order: the next Folder hangs
\* below the one before it or below one of the elements above that one
DocumentOrder(parent) ==
    \A i \in 1..Len(parent) :
        /\ parent[i] < i
        /\ i > 1 => (parent[i] = i - 1 \/ IsBelow([parent |-> parent], i - 1, parent[i])
                     \/ parent[i] = 0)

\* the documents of n Folders; a Folder has no Placemark, one without
\* coordinates, or one with
Documents(n) ==
    { [parent |-> p, name |-> nm,
       placemarks |-> [i \in 1..n |-> IF pm[i] = 0 THEN <<>>
                                      ELSE IF pm[i] = 1 THEN << None >>
                                      ELSE << FolderText(i) >>]] :
        p \in {q \in [1..n -> 0..(MaxFolders - 1)] : DocumentOrder(q)},
        nm \in [1..n -> FolderNames],
        pm \in [1..n -> 0..2] }

InitFolder ==
    /\ pc = "search"
    /\ \E n \in 0..MaxFolders : doc \in Documents(n)
    /\ folder_name \in TargetNames
    /\ target_folder = None
    /\ find_calls = 0
    /\ extracted = <<>>
    /\ ystep = ONE /\ shapes = <<>> /\ polygons = <<>> /\ df = <<>>
    /\ processed = <<>> /\ flooded = <<>>
    /\ coord_text = None /\ parsed = <<>>

ExtractFromFolder ==
    /\ pc = "search"
    /\ target_folder' = FindFolderByName(doc, 0, folder_name)
    /\ find_calls' = FindFolder(doc, 0, folder_name).calls
    /\ extracted' = ExtractPolygonsFromFolder(doc, folder_name)
    /\ pc' = "extracted"
    /\ UNCHANGED <<ystep, shapes, polygons, df, processed, flooded,
                   coord_text, parsed, doc, folder_name>>

NextFolder == ExtractFromFolder

SpecFolder == InitFolder /\ [][NextFolder]_vars

(***************************************************************************)
(* Plane geometry, for stating the claims: exact integer arithmetic, no    *)
(* ray casting.                                                            *)
(***************************************************************************)
Cross(o, a, b) == (a.x - o.x) * (b.y - o.y) - (a.y - o.y) * (b.x - o.x)

OnSegment(p, a, b) ==
    /\ Cross(a, b, p) = 0
    /\ Min2(a.x, b.x) <= p.x /\ p.x <= Max2(a.x, b.x)
    /\ Min2(a.y, b.y) <= p.y /\ p.y <= Max2(a.y, b.y)

Sign(v) == IF v > 0 THEN 1 ELSE IF v < 0 THEN -1 ELSE 0

SegmentsMeet(a, b, c, d) ==
    \/ OnSegment(a, c, d) \/ OnSegment(b, c, d)
    \/ OnSegment(c, a, b) \/ OnSegment(d, a, b)
    \/ /\ Sign(Cross(a, b, c)) * Sign(Cross(a, b, d)) < 0
       /\ Sign(Cross(c, d, a)) * Sign(Cross(c, d, b)) < 0

NextIndex(i, n) == (i % n) + 1

OnBoundary(p, pts) ==
    \E i \in 1..Len(pts) : OnSegment(p, pts[i], pts[NextIndex(i, Len(pts))])

\* a simple closed polygon: three or more distinct vertices, edges that
\* follow each other share their common vertex only, other edges are disjoint
SimplePolygon(pts) ==
    LET n == Len(pts)
    IN /\ n >= 3
       /\ \A i, j \in 1..n : i # j => pts[i] # pts[j]
       /\ \A i \in 1..n :
              ~OnSegment(pts[NextIndex(NextIndex(i, n), n)],
                         pts[i], pts[NextIndex(i, n)])
       /\ \A i \in 1..n :
              ~OnSegment(pts[i], pts[NextIndex(i, n)],
                         pts[NextIndex(NextIndex(i, n), n)])
       /\ \A i, j \in 1..n :
              (i < j /\ NextIndex(i, n) # j /\ NextIndex(j, n) # i)
              => ~SegmentsMeet(pts[i], pts[NextIndex(i, n)],
                               pts[j], pts[NextIndex(j, n)])

\* the quadrant of a - p, counted anticlockwise from the positive x axis
Quadrant(p, a) ==
    IF a.x > p.x /\ a.y >= p.y THEN 0
    ELSE IF a.x <= p.x /\ a.y > p.y THEN 1
    ELSE IF a.x < p.x /\ a.y <= p.y THEN 2
    ELSE 3

\* quarter turns around p made by going from a to b (p not on the segment)
QuarterTurns(p, a, b) ==
    LET d == (Quadrant(p, b) - Quadrant(p, a) + 4) % 4
    IN IF d = 0 THEN 0
       ELSE IF d = 1 THEN 1
       ELSE IF d = 3 THEN -1
       ELSE IF Cross(p, a, b) > 0 THEN 2 ELSE -2

RECURSIVE TurnsFrom(_, _, _)
TurnsFrom(p, pts, i) ==
    IF i > Len(pts) THEN 0
    ELSE QuarterTurns(p, pts[i], pts[NextIndex(i, Len(pts))])
         + TurnsFrom(p, pts, i + 1)

\* p lies strictly inside the simple polygon pts: the ring winds around it
StrictlyInside(p, pts) == ~OnBoundary(p, pts) /\ TurnsFrom(p, pts, 1) # 0

Reverse(s) == [i \in 1..Len(s) |-> s[Len(s) + 1 - i]]
Rotate(s) == IF s = <<>> THEN s ELSE Tail(s) \o << Head(s) >>
Results(column) == [i \in 1..Len(column) |-> column[i].result]
Coords == shapes[1]

(***************************************************************************)
(* SpecRect: a document with one shape, the four corners of an axis-       *)
(* aligned rectangle with whole-number corners, listed from any corner in  *)
(* either direction, tested against every point of the grid of whole x and *)
(* half y that covers the rectangles and the ring around them.             *)
(***************************************************************************)
HalfStep == ONE \div 2

RectCorners(x0, x1, y0, y1) ==
    << Point(x0, y0 * ONE), Point(x1, y0 * ONE),
       Point(x1, y1 * ONE), Point(x0, y1 * ONE) >>

RectOrders(c) ==
    LET turns == {c, Rotate(c), Rotate(Rotate(c)), Rotate(Rotate(Rotate(c)))}
    IN turns \cup {Reverse(t) : t \in turns}

RectWidth == MaxSide + 3
RectHeight == 2 * MaxSide + 5
RectFrame ==
    [i \in 1..(RectWidth * RectHeight) |->
        Row(Some((((i - 1) \div RectWidth) - 2) * HalfStep),
            Some(((i - 1) % RectWidth) - 1), None, None)]

InitRect ==
    /\ pc = "extract"
    /\ ystep = ONE
    /\ \E x0, x1, y0, y1 \in 0..MaxSide :
           /\ x0 < x1 /\ y0 < y1
           /\ \E c \in RectOrders(RectCorners(x0, x1, y0, y1)) : shapes = << c >>
    /\ polygons = <<>>
    /\ df = RectFrame
    /\ processed = <<>>
    /\ flooded = <<>>
    /\ Idle

SpecRect == InitRect /\ [][Next]_vars

(***************************************************************************)
(* Notions the claims are stated with.                                     *)
(***************************************************************************)
NonEmptyShapes == SelectSeq(shapes, LAMBDA c : c # <<>>)

PairwiseResolved(row) ==
    IF row.lat # None /\ row.lon # None
    THEN Some(Point(Get(row.lon), Get(row.lat)))
    ELSE IF row.approximateLat # None /\ row.approximateLon # None
    THEN Some(Point(Get(row.approximateLon), Get(row.approximateLat)))
    ELSE None

AllMissing(row) ==
    /\ row.lat = None /\ row.lon = None
    /\ row.approximateLat = None /\ row.approximateLon = None

Text == IF coord_text = None THEN <<>> ELSE Get(coord_text)

IsStart(a) == Text[a] # " " /\ (a = 1 \/ Text[a - 1] = " ")

\* where the token that starts at a ends
EndOf(a) ==
    CHOOSE b \in a..Len(Text) :
        /\ \A i \in a..b : Text[i] # " "
        /\ (b = Len(Text) \/ Text[b + 1] = " ")

Commas(a) == {i \in a..EndOf(a) : Text[i] = ","}
FirstComma(a) == SetMin(Commas(a))

\* where the second component of the token that starts at a ends
SecondEnd(a) ==
    LET later == {i \in Commas(a) : i > FirstComma(a)}
    IN IF later = {} THEN EndOf(a) ELSE SetMin(later) - 1

AllDigits(a, b) == a <= b /\ \A i \in a..b : Text[i] \in Digits

RECURSIVE NumberAt(_, _)
NumberAt(a, b) ==
    IF a > b THEN 0
    ELSE DigitValue(Text[a]) * (10 ^ (b - a)) + NumberAt(a + 1, b)

ValidStarts ==
    {a \in 1..Len(Text) :
        /\ IsStart(a)
        /\ Commas(a) # {}
        /\ AllDigits(a, FirstComma(a) - 1)
        /\ AllDigits(FirstComma(a) + 1, SecondEnd(a))}

PointAt(a) ==
    Point(NumberAt(a, FirstComma(a) - 1), NumberAt(FirstComma(a) + 1, SecondEnd(a)))

Named == {i \in 1..Len(doc.parent) : doc.name[i] = Some(folder_name)}

\* a coordinate list with its first point repeated at the end
Closed(c) == IF c = <<>> THEN c ELSE Append(c, c[1])
ClosedShapes == [k \in 1..Len(shapes) |-> Closed(shapes[k])]

(***************************************************************************)
(* C1.  Coordinate resolution: the point tested for a record is the exact  *)
(* pair (lon, lat) when both exact components are present and otherwise    *)
(* the approximate pair (approximateLon, approximateLat), never one exact  *)
(* and one approximate component.                                          *)
(***************************************************************************)
C1_PairwiseResolution ==
    pc = "done"
    => \A i \in 1..Len(df) : flooded[i].point = PairwiseResolved(df[i])

(***************************************************************************)
(* C2.  Containment agrees with geometry: for a simple closed polygon with *)
(* vertices on the integer grid and a grid point that is not on its        *)
(* boundary, the bounding-box check followed by _is_point_inside_polygon   *)
(* is true exactly when the point lies strictly inside the polygon.        *)
(***************************************************************************)
C2_ContainmentAgreesWithGeometry ==
    (pc = "done" /\ ystep = ONE /\ Len(shapes) = 1 /\ SimplePolygon(Coords))
    => \A i \in 1..Len(df) :
           ~OnBoundary(RowPoint(df[i]), Coords)
           => (flooded[i].result <=> StrictlyInside(RowPoint(df[i]), Coords))

(***************************************************************************)
(* C3.  Unresolvable record: a record with all four coordinates missing is *)
(* answered false, for every list of polygons, without evaluating any      *)
(* bounding box or edge.                                                   *)
(***************************************************************************)
C3_UnresolvableIsFalse ==
    pc = "done"
    => \A i \in 1..Len(df) :
           AllMissing(df[i])
           => /\ flooded[i].result = FALSE
              /\ flooded[i].bbox = 0 /\ flooded[i].edges = 0

C3_Witness ==
    /\ pc = "done" /\ Len(processed) = 2 /\ Len(df) = 2
    /\ AllMissing(df[2]) /\ ~flooded[2].result
    /\ flooded[1].result

C3_WitnessNoPolygons ==
    pc = "done" /\ processed = <<>> /\ Len(df) = 1 /\ AllMissing(df[1])

(***************************************************************************)
(* C4.  The bounding-box pre-check preserves the result: a point outside   *)
(* the box is answered false with no edge inspected, the edge-crossing     *)
(* test alone answers false for it too, and so for every point the answer  *)
(* with the pre-check is the answer without it.  Stated for the polygons   *)
(* of the extractor that are simple, the ones that enclose an area.        *)
(***************************************************************************)
C4_BBoxCheckPreservesResult ==
    (pc = "done" /\ Len(processed) = 1 /\ SimplePolygon(Coords))
    => \A i \in 1..Len(df) :
           LET point == RowPoint(df[i])
               p == processed[1]
           IN /\ ~IsPointInBBox(point, p.min_p, p.max_p)
                 => /\ flooded[i].result = FALSE
                    /\ flooded[i].edges = 0
                    /\ IsPointInsidePolygon(point, p.polygon) = FALSE
              /\ flooded[i].result = IsPointInsidePolygon(point, p.polygon)

(***************************************************************************)
(* C5.  Batch evaluation is positional and existential: the column has one *)
(* boolean per row; the i-th is true exactly when the point resolved for   *)
(* the i-th row (the point the evaluation tested) passes the containment   *)
(* test of at least one polygon; it is what the row alone would get, and   *)
(* it is the same for the polygon list reversed or rotated.                *)
(***************************************************************************)
C5_BatchIsPositionalExistential ==
    pc = "done"
    => /\ Len(flooded) = Len(df)
       /\ \A i \in 1..Len(df) :
              /\ flooded[i].result
                 <=> /\ flooded[i].point # None
                     /\ \E k \in 1..Len(processed) :
                            /\ IsPointInBBox(Get(flooded[i].point),
                                             processed[k].min_p, processed[k].max_p)
                            /\ IsPointInsidePolygon(Get(flooded[i].point),
                                                    processed[k].polygon)
              /\ MarkPointsInPolygons(<< df[i] >>, polygons)[1].result
                 = flooded[i].result
       /\ Results(MarkPointsInPolygons(df, Reverse(polygons))) = Results(flooded)
       /\ Results(MarkPointsInPolygons(df, Rotate(polygons))) = Results(flooded)

\* two rows with different answers, the first inside the second polygon only
C5_Witness ==
    /\ pc = "done" /\ Len(df) = 2 /\ Len(processed) = 2
    /\ flooded[1].result /\ flooded[1].bbox = 2
    /\ ~flooded[2].result /\ flooded[2].point # None
    /\ processed[1] # processed[2]

(***************************************************************************)
(* C6.  Vertex-order independence: the containment result of every point   *)
(* is the same for the polygon built from the reversed vertex list and     *)
(* from the vertex list rotated to start at the next vertex, and every     *)
(* edge's crossing test answers the same for (start, end) and (end, start). *)
(***************************************************************************)
C6_VertexOrderIndependence ==
    (pc = "done" /\ Len(shapes) = 1)
    => /\ Results(MarkPointsInPolygons(df, ShapesToPolygons(<< Reverse(Coords) >>)))
          = Results(flooded)
       /\ Results(MarkPointsInPolygons(df, ShapesToPolygons(<< Rotate(Coords) >>)))
          = Results(flooded)
       /\ \A k \in 1..Len(polygons) : \A j \in 1..Len(polygons[k].edges) :
              \A i \in 1..Len(df) :
                  LET e == polygons[k].edges[j]
                  IN RayIntersectsSegment(RowPoint(df[i]), e)
                     = RayIntersectsSegment(RowPoint(df[i]), Edge(e.end, e.start))

C6_Witness ==
    /\ pc = "done" /\ Len(shapes) = 1 /\ Len(Coords) = 3
    /\ Reverse(Coords) # Coords
    /\ \E j \in 1..3 : polygons[1].edges[j].start.y > polygons[1].edges[j].end.y
    /\ \E i \in 1..Len(df) : flooded[i].result
    /\ \E i \in 1..Len(df) : ~flooded[i].result /\ flooded[i].edges > 0

(***************************************************************************)
(* C7.  Bounding-box preprocessing: _preprocess_polygons returns one       *)
(* element per polygon, the i-th wrapping the i-th polygon, with min_p and *)
(* max_p the component-wise minimum and maximum over the coordinate list   *)
(* the polygon was built from; so min_p <= max_p in both components and no *)
(* vertex lies outside the box.                                            *)
(***************************************************************************)
C7_BoundingBoxIsTight ==
    pc = "done"
    => /\ Len(processed) = Len(polygons)
       /\ Len(processed) = Len(NonEmptyShapes)
       /\ \A i \in 1..Len(processed) :
              LET c == NonEmptyShapes[i]
                  xs == {c[k].x : k \in 1..Len(c)}
                  ys == {c[k].y : k \in 1..Len(c)}
                  p == processed[i]
              IN /\ p.polygon = polygons[i]
                 /\ p.min_p = Point(SetMin(xs), SetMin(ys))
                 /\ p.max_p = Point(SetMax(xs), SetMax(ys))
                 /\ p.min_p.x <= p.max_p.x /\ p.min_p.y <= p.max_p.y
                 /\ \A j \in 1..Len(p.polygon.edges) :
                        /\ IsPointInBBox(p.polygon.edges[j].start, p.min_p, p.max_p)
                        /\ IsPointInBBox(p.polygon.edges[j].end, p.min_p, p.max_p)

\* two polygons with different boxes; only the last point of the first
\* reaches its largest x
C7_Witness ==
    /\ pc = "done" /\ Len(processed) = 2 /\ Len(Coords) = 3
    /\ processed[1].min_p.x < processed[1].max_p.x
    /\ processed[1].min_p.y < processed[1].max_p.y
    /\ Coords[3].x = processed[1].max_p.x /\ Coords[1].x < Coords[3].x
    /\ Coords[2].x < Coords[3].x
    /\ processed[2].min_p # processed[1].min_p

(***************************************************************************)
(* C8.  Closed ring: a polygon emitted from a shape with n >= 1 parsed     *)
(* points has n edges, edge i starts at point i, each edge ends where the  *)
(* next starts and the last ends where the first starts; a shape with no   *)
(* parsed points emits no polygon, so no polygon has zero edges.           *)
(***************************************************************************)
C8_ClosedRing ==
    pc \in {"mark", "done"}
    => /\ Len(polygons) = Len(NonEmptyShapes)
       /\ \A i \in 1..Len(polygons) :
              LET c == NonEmptyShapes[i]
                  es == polygons[i].edges
                  n == Len(c)
              IN /\ n >= 1 /\ Len(es) = n
                 /\ \A k \in 1..n : es[k].start = c[k]
                 /\ \A k \in 1..(n - 1) : es[k].end = es[k + 1].start
                 /\ es[n].end = es[1].start

\* a triangle, and a one-point shape followed by a shape without points
C8_Witness ==
    /\ pc = "mark" /\ Len(shapes) = 1 /\ Len(Coords) = 3 /\ Len(polygons) = 1
    /\ Coords[1] # Coords[2] /\ Coords[2] # Coords[3] /\ Coords[3] # Coords[1]

C8_WitnessSkipped ==
    /\ pc = "mark" /\ Len(shapes) = 2 /\ Len(shapes[1]) = 1 /\ shapes[2] = <<>>
    /\ Len(polygons) = 1 /\ Len(polygons[1].edges) = 1
    /\ polygons[1].edges[1] = Edge(Coords[1], Coords[1])

(***************************************************************************)
(* C9.  Per-token recovery: _parse_coordinates returns exactly the points  *)
(* of the valid tokens, in their order in the string, component 0 as x and *)
(* component 1 as y, further components ignored; an invalid token adds     *)
(* nothing and removes or reorders nothing; None and "" give the empty     *)
(* list.  A token is a maximal run of characters other than whitespace; it *)
(* is valid when it has a comma, digits and nothing else before it, and    *)
(* digits and nothing else between it and the next comma or the token's    *)
(* end.                                                                    *)
(***************************************************************************)
C9_PerTokenRecovery ==
    pc = "parsed"
    => /\ Len(parsed) = Cardinality(ValidStarts)
       /\ \A k \in 1..Len(parsed) :
              \E a \in ValidStarts :
                  /\ Cardinality({a2 \in ValidStarts : a2 < a}) = k - 1
                  /\ parsed[k] = PointAt(a)
       /\ (coord_text = None \/ coord_text = Some(<<>>)) => parsed = <<>>

\* a token that cannot be parsed between two that can, the points unlike
C9_Witness ==
    /\ pc = "parsed"
    /\ coord_text = Some(<<"1", "2", ",", "1", " ", "x", ",", "1", " ",
                           "1", ",", "2", ",", "x">>)
    /\ parsed = << Point(12, 1), Point(1, 2) >>

C9_WitnessNone == pc = "parsed" /\ coord_text = None /\ parsed = <<>>

(***************************************************************************)
(* C10.  Folder lookup: _find_folder_by_name ends, after at most 2^n calls  *)
(* of itself in a document of n Folders, and returns the first Folder in   *)
(* document order below the root whose direct name child is the target,    *)
(* letter case included; when there is none it returns None and            *)
(* extract_polygons_from_folder returns the empty list.                    *)
(***************************************************************************)
C10_FirstMatchDepthFirst ==
    pc = "extracted"
       => /\ find_calls >= 1 /\ find_calls <= 2 ^ Len(doc.parent)
          /\ Named # {}
             => /\ target_folder = Some(SetMin(Named))
                /\ doc.name[Get(target_folder)] = Some(folder_name)
          /\ Named = {} => (target_folder = None /\ extracted = <<>>)

\* the second Folder with the name is nested in an unnamed one and comes
\* first; a Folder with the name in the other letter case comes before both
C10_Witness ==
    /\ pc = "extracted" /\ folder_name = "A" /\ Len(doc.parent) = 3
    /\ doc.parent = <<0, 1, 0>>
    /\ doc.name = << Some("a"), Some("A"), Some("A") >>
    /\ target_folder = Some(2)
    /\ Len(extracted) = 1

C10_WitnessNotFound ==
    /\ pc = "extracted" /\ Len(doc.parent) = 3 /\ Named = {}
    /\ \E i \in 1..3 : doc.placemarks[i] = << FolderText(i) >>
    /\ target_folder = None /\ extracted = <<>>

(***************************************************************************)
(* C11.  Boundary behaviour for rectangles: for an axis-aligned rectangle  *)
(* with whole-number corners x0 < x1 and y0 < y1, its vertices listed from *)
(* any corner in either direction, and every grid point p, the containment *)
(* result is true exactly when x0 < p.x <= x1 and y0 <= p.y < y1; and no   *)
(* horizontal edge is counted as a crossing for any p.                     *)
(***************************************************************************)
C11_RectangleBoundary ==
    pc = "done"
    => LET xs == {Coords[k].x : k \in 1..Len(Coords)}
           ys == {Coords[k].y : k \in 1..Len(Coords)}
           x0 == SetMin(xs)
           x1 == SetMax(xs)
           y0 == SetMin(ys)
           y1 == SetMax(ys)
       IN \A i \in 1..Len(df) :
              LET p == RowPoint(df[i])
              IN /\ flooded[i].result
                    <=> (x0 < p.x /\ p.x <= x1 /\ y0 <= p.y /\ p.y < y1)
                 /\ \A j \in 1..Len(polygons[1].edges) :
                        LET e == polygons[1].edges[j]
                        IN e.start.y = e.end.y => ~RayIntersectsSegment(p, e)

\* the unit square listed clockwise from its upper right corner: (1, 0.5)
\* on the right edge and (1, 0) on the bottom edge are inside, (0, 0.5) on
\* the left edge and (1, 1) on the top edge are outside
C11_Witness ==
    /\ pc = "done"
    /\ Coords = << Point(1, ONE), Point(1, 0), Point(0, 0), Point(0, ONE) >>
    /\ \E i \in 1..Len(df) : RowPoint(df[i]) = Point(1, HalfStep) /\ flooded[i].result
    /\ \E i \in 1..Len(df) : RowPoint(df[i]) = Point(1, 0) /\ flooded[i].result
    /\ \E i \in 1..Len(df) : RowPoint(df[i]) = Point(0, HalfStep) /\ ~flooded[i].result
    /\ \E i \in 1..Len(df) : RowPoint(df[i]) = Point(1, ONE) /\ ~flooded[i].result

(***************************************************************************)
(* C12.  Repeated closing vertex: the polygons built from coordinate lists *)
(* of n >= 1 points and the polygons built from the same lists with their  *)
(* first point appended again have the same bounding boxes and give the    *)
(* same containment result for every query point; the added edge, from the *)
(* first point to itself, is never counted as a crossing.                  *)
(***************************************************************************)
C12_RepeatedClosingVertex ==
    pc = "done"
    => LET closed == ShapesToPolygons(ClosedShapes)
           boxes == PreprocessPolygons(closed)
       IN /\ Len(boxes) = Len(processed)
          /\ \A k \in 1..Len(processed) :
                 LET es == closed[k].edges
                     added == es[Len(es)]
                 IN /\ boxes[k].min_p = processed[k].min_p
                    /\ boxes[k].max_p = processed[k].max_p
                    /\ Len(es) = Len(polygons[k].edges) + 1
                    /\ added.start = added.end
                    /\ \A i \in 1..Len(df) :
                           ~RayIntersectsSegment(RowPoint(df[i]), added)
          /\ Results(MarkPointsInPolygons(df, closed)) = Results(flooded)

\* a triangle that holds a query point, with a query point level with its
\* first vertex and left of it, where the ray runs through the added edge
C12_Witness ==
    /\ pc = "done" /\ Len(shapes) = 1 /\ Len(Coords) = 3
    /\ \E i \in 1..Len(df) : flooded[i].result
    /\ \E i \in 1..Len(df) :
           /\ RowPoint(df[i]).y = Coords[1].y
           /\ RowPoint(df[i]).x < Coords[1].x
           /\ ~flooded[i].result
           /\ IsPointInBBox(RowPoint(df[i]), processed[1].min_p, processed[1].max_p)

====
